---- MODULE Spec2Model ----
(***************************************************************************)
(* A model of app.py, the repository word / code / symbol cloud server.    *)
(*                                                                         *)
(* Text is a sequence of Unicode code points, a byte string a sequence of  *)
(* numbers 0..255, a path a sequence of segments (each a sequence of code  *)
(* points).  The character classes below are exact for the code points     *)
(* 0..255, which are the only ones the byte alphabets of this model can    *)
(* decode to.                                                              *)
(***************************************************************************)
EXTENDS Integers, Sequences, FiniteSets, TLC

VARIABLES
    tree,           \* the file system below REPO_ROOT: path index -> entry
    pc,             \* position of the (single threaded) request handler
    mode,           \* the mode of the scan in progress / last scan
    pending,        \* the paths rglob has still to yield
    counter,        \* collect_frequencies' local Counter, in insertion order
    scanned_files,  \* collect_frequencies' local scanned_files
    response,       \* the payload build_response returned last
    edits,          \* number of file system changes so far
    served,         \* number of payloads sent so far (saturating)
    text,           \* the text handed to a tokenizer
    op,             \* the tokenizer or loader function applied to text / raw
    tokens,         \* the terms the tokenizer produced
    raw,            \* the bytes of the file handed to read_text
    loaded          \* the text read_text returned for them

vars == <<tree, pc, mode, pending, counter, scanned_files, response, edits, served,
          text, op, tokens, raw, loaded>>

scanVars == <<tree, pc, mode, pending, counter, scanned_files, response, edits, served>>
tokVars  == <<text, op, tokens>>
loadVars == <<raw, loaded>>

(***************************************************************************)
(* Character classes and string helpers                                    *)
(***************************************************************************)

\* [A-Z]
UpperChars == 65..90
\* [a-z]
LowerChars == 97..122
\* \d within 0..255
DigitChars == 48..57
\* [A-Za-z0-9_]
TokenChars == UpperChars \cup LowerChars \cup DigitChars \cup {95}
\* [A-Za-z_]
IdentStartChars == UpperChars \cup LowerChars \cup {95}
\* \w of a str pattern, within 0..255
WordChars == TokenChars \cup {170, 178, 179, 181, 185, 186} \cup (188..190)
                \cup (192..214) \cup (216..246) \cup (248..255)
\* \s of a str pattern and str.isspace(), within 0..255
SpaceChars == (9..13) \cup (28..32) \cup {133, 160}
\* the line boundaries of str.splitlines()
LineBreakChars == {10, 11, 12, 13, 28, 29, 30, 133, 8232, 8233}
\* the separators split_identifier splits on: [_\-]
SeparatorChars == {95, 45}

\* str.lower() of one code point, within 0..255
LowerChar(c) ==
    IF c \in UpperChars \/ c \in 192..214 \/ c \in 216..222 THEN c + 32 ELSE c

\* str.lower()
Lower(s) == [i \in 1..Len(s) |-> LowerChar(s[i])]

\* the first index >= i of s whose element is not in cls (Len(s)+1 if none):
\* where a greedy cls+ that starts at i ends
RECURSIVE RunEnd(_, _, _)
RunEnd(s, i, cls) ==
    IF i <= Len(s) /\ s[i] \in cls THEN RunEnd(s, i + 1, cls) ELSE i

\* the first index >= i of s whose element is in stops (Len(s)+1 if none)
RECURSIVE ScanTo(_, _, _)
ScanTo(s, i, stops) ==
    IF i <= Len(s) /\ s[i] \notin stops THEN ScanTo(s, i + 1, stops) ELSE i

\* the last index <= i of s whose element is not in cls (0 if none)
RECURSIVE RunStart(_, _, _)
RunStart(s, i, cls) ==
    IF i >= 1 /\ s[i] \in cls THEN RunStart(s, i - 1, cls) ELSE i

\* s[i:].startswith(w)
StartsWithAt(s, i, w) ==
    /\ i + Len(w) - 1 <= Len(s)
    /\ SubSeq(s, i, i + Len(w) - 1) = w

\* s.startswith(w)
StartsWith(s, w) == StartsWithAt(s, 1, w)

\* str.strip()
Strip(s) ==
    LET a == RunEnd(s, 1, SpaceChars)
        b == RunStart(s, Len(s), SpaceChars)
    IN  IF a > b THEN <<>> ELSE SubSeq(s, a, b)

\* the middle of lo..hi, where the recursions over long sequences halve
Mid(lo, hi) == (lo + hi) \div 2

\* the concatenation of ss[lo], ..., ss[hi], by halves
RECURSIVE FlattenRange(_, _, _)
FlattenRange(ss, lo, hi) ==
    IF lo > hi THEN <<>>
    ELSE IF lo = hi THEN ss[lo]
    ELSE FlattenRange(ss, lo, Mid(lo, hi)) \o FlattenRange(ss, Mid(lo, hi) + 1, hi)

\* the concatenation of a sequence of sequences
Flatten(ss) == FlattenRange(ss, 1, Len(ss))

(***************************************************************************)
(* split_identifier and tokenize                                           *)
(***************************************************************************)

\* what re.findall(r"[A-Za-z0-9_]+", text) finds at index i: the maximal
\* run that starts there, or nothing
TokenAt(t, i) ==
    IF t[i] \in TokenChars /\ (i = 1 \/ t[i - 1] \notin TokenChars)
    THEN <<SubSeq(t, i, RunEnd(t, i, TokenChars) - 1)>>
    ELSE <<>>

\* re.findall(r"[A-Za-z0-9_]+", text): the maximal runs, left to right
BaseTokens(t) == Flatten([i \in 1..Len(t) |-> TokenAt(t, i)])

\* the non-empty chunks of re.split(r"[_\-]+", token), from index i on
RECURSIVE Chunks(_, _)
Chunks(token, i) ==
    IF i > Len(token) THEN <<>>
    ELSE IF token[i] \in SeparatorChars
         THEN Chunks(token, i + 1)
         ELSE LET j == ScanTo(token, i, SeparatorChars)
              IN  <<SubSeq(token, i, j - 1)>> \o Chunks(token, j)

\* the same match with [A-Z]+ in place of [A-Z]+(?![a-z]): the run of
\* capitals is never given back
CamelMatchEndGreedyCapitals(chunk, i) ==
    LET n == Len(chunk)
        first == IF chunk[i] \in UpperChars /\ i + 1 <= n /\ chunk[i + 1] \in LowerChars
                 THEN RunEnd(chunk, i + 1, LowerChars)
                 ELSE RunEnd(chunk, i, LowerChars)
        second == RunEnd(chunk, i, UpperChars)
        third == RunEnd(chunk, i, DigitChars)
    IN  IF first > i THEN first
        ELSE IF second > i THEN second
        ELSE third

\* where a match of [A-Z]?[a-z]+|[A-Z]+(?![a-z])|\d+ that starts at index i
\* of chunk ends (exclusive); i itself when there is no match at i
CamelMatchEnd(chunk, i) ==
    LET n == Len(chunk)
        \* [A-Z]?[a-z]+ : with the capital, else without it
        first == IF chunk[i] \in UpperChars /\ i + 1 <= n /\ chunk[i + 1] \in LowerChars
                 THEN RunEnd(chunk, i + 1, LowerChars)
                 ELSE RunEnd(chunk, i, LowerChars)
        \* [A-Z]+(?![a-z]) : the greedy run, given back by one capital when a
        \* lowercase letter follows it
        u == RunEnd(chunk, i, UpperChars)
        second == IF u <= n /\ chunk[u] \in LowerChars /\ u > i THEN u - 1 ELSE u
        \* \d+
        third == RunEnd(chunk, i, DigitChars)
    IN  IF first > i THEN first
        ELSE IF second > i THEN second
        ELSE third

\* re.findall(r"[A-Z]?[a-z]+|[A-Z]+(?![a-z])|\d+", chunk), from index i on
RECURSIVE CamelParts(_, _)
CamelParts(chunk, i) ==
    IF i > Len(chunk) THEN <<>>
    ELSE LET e == CamelMatchEnd(chunk, i)
         IN  IF e > i
             THEN <<SubSeq(chunk, i, e - 1)>> \o CamelParts(chunk, e)
             ELSE CamelParts(chunk, i + 1)

\* camel_parts or [chunk]
ChunkPieces(chunk) ==
    LET camel_parts == CamelParts(chunk, 1)
    IN  IF camel_parts = <<>> THEN <<chunk>> ELSE camel_parts

\* a filter that lets pieces of one character through
LongerThanZero(piece) == Len(piece) > 0

\* len(piece) > 1, len(lowered) > 1
LongerThanOne(piece) == Len(piece) > 1

split_identifier(token) ==
    LET chunks == Chunks(token, 1)
        pieces == Flatten([k \in 1..Len(chunks) |-> ChunkPieces(chunks[k])])
        kept   == SelectSeq(pieces, LongerThanOne)
    IN  [k \in 1..Len(kept) |-> Lower(kept[k])]

LongerThanTwo(token) == Len(token) > 2

\* the tokens tokenize(text, mode) yields, in order
tokenize(t, m) ==
    LET base_tokens == BaseTokens(t)
    IN  IF m = "words"
        THEN LET lowered == [k \in 1..Len(base_tokens) |-> Lower(base_tokens[k])]
             IN  SelectSeq(lowered, LongerThanTwo)
        ELSE IF m = "code"
        THEN Flatten([k \in 1..Len(base_tokens) |-> split_identifier(base_tokens[k])])
        ELSE <<>>

(***************************************************************************)
(* symbol_tokens                                                           *)
(***************************************************************************)

\* the line of text.splitlines() that starts at index i, or nothing: a line
\* starts at the first index and behind every line boundary, "\r\n" being
\* one boundary, and ends before the next boundary
LineAt(t, i) ==
    IF i = 1 \/ (t[i - 1] \in LineBreakChars /\ ~(t[i - 1] = 13 /\ t[i] = 10))
    THEN <<SubSeq(t, i, ScanTo(t, i, LineBreakChars) - 1)>>
    ELSE <<>>

\* text.splitlines()
SplitLines(t) == Flatten([i \in 1..Len(t) |-> LineAt(t, i)])

\* the markers of stripped.startswith(("#", "//", "/*", "*", "--"))
CommentMarkers == {<<35>>, <<47, 47>>, <<47, 42>>, <<42>>, <<45, 45>>}

IsComment(stripped) == \E w \in CommentMarkers : StartsWith(stripped, w)

KwExport    == <<101, 120, 112, 111, 114, 116>>
KwAbstract  == <<97, 98, 115, 116, 114, 97, 99, 116>>
KwPublic    == <<112, 117, 98, 108, 105, 99>>
KwPrivate   == <<112, 114, 105, 118, 97, 116, 101>>
KwProtected == <<112, 114, 111, 116, 101, 99, 116, 101, 100>>
KwStatic    == <<115, 116, 97, 116, 105, 99>>
KwAsync     == <<97, 115, 121, 110, 99>>
KwClass     == <<99, 108, 97, 115, 115>>
KwInterface == <<105, 110, 116, 101, 114, 102, 97, 99, 101>>
KwStruct    == <<115, 116, 114, 117, 99, 116>>
KwTrait     == <<116, 114, 97, 105, 116>>
KwDef       == <<100, 101, 102>>
KwFunc      == <<102, 117, 110, 99>>
KwFn        == <<102, 110>>
KwFunction  == <<102, 117, 110, 99, 116, 105, 111, 110>>

\* the groups of the type-definition pattern, each an alternation of
\* keywords followed by \s+, in the pattern's order
ClassPattern ==
    << [kws |-> <<KwExport>>, optional |-> TRUE],
       [kws |-> <<KwAbstract>>, optional |-> TRUE],
       [kws |-> <<KwPublic, KwPrivate, KwProtected>>, optional |-> TRUE],
       [kws |-> <<KwClass, KwInterface, KwStruct, KwTrait>>, optional |-> FALSE] >>

\* the groups of the function-definition pattern
FuncPattern ==
    << [kws |-> <<KwExport>>, optional |-> TRUE],
       [kws |-> <<KwAsync>>, optional |-> TRUE],
       [kws |-> <<KwPublic, KwPrivate, KwProtected, KwStatic>>, optional |-> TRUE],
       [kws |-> <<KwDef, KwFunc, KwFn, KwFunction>>, optional |-> FALSE] >>

\* ([A-Za-z_][\w]*) at index i of s: the captured name, <<>> when no match
Identifier(s, i) ==
    IF i <= Len(s) /\ s[i] \in IdentStartChars
    THEN SubSeq(s, i, RunEnd(s, i + 1, WordChars) - 1)
    ELSE <<>>

\* re.match of groups k.. of a pattern followed by the name capture, at
\* index i of s, as the backtracking matcher tries it: the alternatives of
\* group k in order from alternative a on, then (an optional group) nothing.
\* The captured name, <<>> when there is no match.
RECURSIVE MatchGroups(_, _, _, _)
MatchGroups(s, i, pattern, k) ==
    IF k > Len(pattern) THEN Identifier(s, i)
    ELSE LET grp == pattern[k]
             Try[a \in 1..(Len(grp.kws) + 1)] ==
                 IF a > Len(grp.kws)
                 THEN IF grp.optional THEN MatchGroups(s, i, pattern, k + 1) ELSE <<>>
                 ELSE LET kw   == grp.kws[a]
                          p    == i + Len(kw)
                          q    == RunEnd(s, p, SpaceChars)
                          with == IF StartsWithAt(s, i, kw) /\ q > p
                                  THEN MatchGroups(s, q, pattern, k + 1)
                                  ELSE <<>>
                      IN  IF with # <<>> THEN with ELSE Try[a + 1]
         IN  Try[1]

\* group(1) of the type-definition match, <<>> when the line does not match
ClassMatch(stripped) == MatchGroups(stripped, 1, ClassPattern, 1)

\* group(1) of the function-definition match
FuncMatch(stripped) == MatchGroups(stripped, 1, FuncPattern, 1)

\* group(1) of re.match(r"^([A-Za-z_][\w]*)\s*=", stripped)
VarMatch(stripped) ==
    LET name == Identifier(stripped, 1)
        q    == RunEnd(stripped, Len(name) + 1, SpaceChars)
    IN  IF name # <<>> /\ q <= Len(stripped) /\ stripped[q] = 61
        THEN name
        ELSE <<>>

\* the iteration without the test of the indentation
LineDefinitionsIndentedToo(line) ==
    LET stripped == Strip(line)
    IN  IF stripped = <<>> THEN <<>>
        ELSE IF IsComment(stripped) THEN <<>>
        ELSE IF ClassMatch(stripped) # <<>> THEN <<ClassMatch(stripped)>>
        ELSE IF FuncMatch(stripped) # <<>> THEN <<FuncMatch(stripped)>>
        ELSE IF VarMatch(stripped) # <<>> THEN <<VarMatch(stripped)>>
        ELSE <<>>

\* what one iteration of symbol_tokens' loop appends to definitions:
\* <<>> or a one-element sequence
LineDefinitions(line) ==
    LET stripped == Strip(line)
    IN  IF stripped = <<>> THEN <<>>
        ELSE IF IsComment(stripped) THEN <<>>
        ELSE IF ClassMatch(stripped) # <<>> THEN <<ClassMatch(stripped)>>
        ELSE IF FuncMatch(stripped) # <<>> THEN <<FuncMatch(stripped)>>
        ELSE IF ~(StartsWith(line, <<32>>) \/ StartsWith(line, <<9>>))
                /\ VarMatch(stripped) # <<>>
        THEN <<VarMatch(stripped)>>
        ELSE <<>>

\* the list definitions after the loop over the lines
SymbolDefinitions(t) ==
    LET lines == SplitLines(t)
    IN  Flatten([k \in 1..Len(lines) |-> LineDefinitions(lines[k])])

\* the names symbol_tokens(text) yields, in order
symbol_tokens(t) ==
    LET definitions == SymbolDefinitions(t)
        lowered     == [k \in 1..Len(definitions) |-> Lower(definitions[k])]
    IN  SelectSeq(lowered, LongerThanOne)

(***************************************************************************)
(* is_probably_text and read_text                                          *)
(***************************************************************************)

MAX_FILE_BYTES == 400000

\* 32 <= b < 127 or b in (9, 10, 13)
IsPrintable(b) == (32 <= b /\ b < 127) \/ b \in {9, 10, 13}

\* sum(32 <= b < 127 or b in (9, 10, 13) for b in data)
PrintableCount(data) == Cardinality({i \in 1..Len(data) : IsPrintable(data[i])})

\* printable / len(data) >= 0.8
AtLeastFourFifths(printable, n) == 5 * printable >= 4 * n

\* printable / len(data) > 0.8 .  The quotient of two integers below 2^53
\* is correctly rounded and 0.8 is the double nearest to 4/5, while a
\* quotient p/n other than 4/5 with n <= MAX_FILE_BYTES differs from 4/5 by
\* at least 1/(5n): the floating point comparison decides as the exact one.
ExceedsFourFifths(printable, n) == 5 * printable > 4 * n

is_probably_text(data) ==
    IF data = <<>> THEN FALSE
    ELSE IF \E i \in 1..Len(data) : data[i] = 0 THEN FALSE
    ELSE ExceedsFourFifths(PrintableCount(data), Len(data))

\* the number of continuation bytes a UTF-8 lead byte announces; 0 for a
\* byte that cannot start a multi-byte sequence
ContinuationBytes(b) ==
    IF b \in 194..223 THEN 1
    ELSE IF b \in 224..239 THEN 2
    ELSE IF b \in 240..244 THEN 3
    ELSE 0

\* the values the idx-th continuation byte after lead may take
ContinuationRange(lead, idx) ==
    IF idx > 1 THEN 128..191
    ELSE IF lead = 224 THEN 160..191
    ELSE IF lead = 237 THEN 128..159
    ELSE IF lead = 240 THEN 144..191
    ELSE IF lead = 244 THEN 128..143
    ELSE 128..191

\* how many of the continuation bytes announced by data[i] follow it validly
RECURSIVE ValidContinuations(_, _, _)
ValidContinuations(data, i, idx) ==
    IF /\ idx <= ContinuationBytes(data[i])
       /\ i + idx <= Len(data)
       /\ data[i + idx] \in ContinuationRange(data[i], idx)
    THEN ValidContinuations(data, i, idx + 1)
    ELSE idx - 1

\* the code point a complete sequence of 1 + n bytes at index i encodes
CodePoint(data, i, n) ==
    IF n = 1 THEN (data[i] % 32) * 64 + (data[i + 1] % 64)
    ELSE IF n = 2
    THEN (data[i] % 16) * 4096 + (data[i + 1] % 64) * 64 + (data[i + 2] % 64)
    ELSE (data[i] % 8) * 262144 + (data[i + 1] % 64) * 4096
            + (data[i + 2] % 64) * 64 + (data[i + 3] % 64)

\* What the decoder emits for the byte at index i.  The decoder drops an
\* ill-formed subsequence (a byte that starts nothing, or a lead byte with
\* the valid continuation bytes that follow it) and goes on behind it.  It
\* consumes or drops a byte in 128..191 without emitting anything for it and
\* stands at every other byte: on an ASCII byte, which it emits, or on a lead
\* byte, for which it emits a code point when the sequence is complete.
DecodedAt(data, i) ==
    IF data[i] < 128 THEN <<data[i]>>
    ELSE IF data[i] \in 128..191 THEN <<>>
    ELSE LET n == ContinuationBytes(data[i])
         IN  IF n > 0 /\ ValidContinuations(data, i, 1) = n
             THEN <<CodePoint(data, i, n)>>
             ELSE <<>>

\* raw.decode("utf-8", errors="ignore")
Utf8DecodeIgnore(data) == Flatten([i \in 1..Len(data) |-> DecodedAt(data, i)])

\* path.read_bytes()[:MAX_FILE_BYTES]
Truncate(bytes) ==
    IF Len(bytes) > MAX_FILE_BYTES THEN SubSeq(bytes, 1, MAX_FILE_BYTES) ELSE bytes

\* read_text of a file whose read_bytes() raises OSError (readable = FALSE)
\* or returns bytes
read_text(readable, bytes) ==
    IF ~readable THEN <<>>
    ELSE LET data == Truncate(bytes)
         IN  IF ~is_probably_text(data) THEN <<>>
             ELSE Utf8DecodeIgnore(data)

(***************************************************************************)
(* Paths and the skip rules                                                *)
(***************************************************************************)

\* the names of DEFAULT_EXCLUDES: .git node_modules __pycache__ .venv venv
DEFAULT_EXCLUDES ==
    { <<46, 103, 105, 116>>,
      <<110, 111, 100, 101, 95, 109, 111, 100, 117, 108, 101, 115>>,
      <<95, 95, 112, 121, 99, 97, 99, 104, 101, 95, 95>>,
      <<46, 118, 101, 110, 118>>,
      <<118, 101, 110, 118>> }

\* JS_EXTENSIONS: .js .jsx .ts .tsx .mjs .cjs
JS_EXTENSIONS ==
    { <<46, 106, 115>>, <<46, 106, 115, 120>>, <<46, 116, 115>>,
      <<46, 116, 115, 120>>, <<46, 109, 106, 115>>, <<46, 99, 106, 115>> }

\* the parts of REPO_ROOT, here /repo
RootParts == << <<47>>, <<114, 101, 112, 111>> >>

\* path.parts of the absolute path rglob yields for the relative path rel
Parts(rel) == RootParts \o rel

\* path.name
Name(rel) == rel[Len(rel)]

\* the index of the last "." of name, 0 when it has none (str.rfind + 1)
RECURSIVE LastDot(_, _)
LastDot(name, i) ==
    IF i = 0 THEN 0 ELSE IF name[i] = 46 THEN i ELSE LastDot(name, i - 1)

\* path.suffix
Suffix(rel) ==
    LET name == Name(rel)
        i    == LastDot(name, Len(name))
    IN  IF 1 < i /\ i < Len(name) THEN SubSeq(name, i, Len(name)) ELSE <<>>

\* only the last part compared with the excluded names
should_skip_path_name_only(rel) == Name(rel) \in DEFAULT_EXCLUDES

should_skip_path(rel) ==
    LET parts == {Parts(rel)[k] : k \in 1..Len(Parts(rel))}
    IN  \E excluded \in DEFAULT_EXCLUDES : excluded \in parts

\* should_skip_file without the test of the leading "."
should_skip_file_keeps_hidden(rel, entry, m) ==
    IF should_skip_path(rel) THEN TRUE
    ELSE IF entry.kind # "file" THEN TRUE
    ELSE IF m = "symbols" /\ Lower(Suffix(rel)) \in JS_EXTENSIONS THEN TRUE
    ELSE FALSE

\* entry is what the file system holds at the path
should_skip_file(rel, entry, m) ==
    IF should_skip_path(rel) \/ StartsWith(Name(rel), <<46>>) THEN TRUE
    ELSE IF entry.kind # "file" THEN TRUE
    ELSE IF m = "symbols" /\ Lower(Suffix(rel)) \in JS_EXTENSIONS THEN TRUE
    ELSE FALSE

(***************************************************************************)
(* The Counter, most_common and build_response                             *)
(***************************************************************************)

\* the terms a Counter holds
CounterTerms(c) == {c[i].term : i \in 1..Len(c)}

\* how often term occurs in terms
Occurrences(terms, term) == Cardinality({k \in 1..Len(terms) : terms[k] = term})

\* counter.update(terms), that is counter[term] += 1 for each term in turn:
\* the count of a term rises by the number of its occurrences, and the terms
\* the Counter did not hold enter behind the others in the order of their
\* first occurrences (dict insertion order)
CounterUpdate(c, terms) ==
    LET known      == CounterTerms(c)
        IsFirst(k) == /\ terms[k] \notin known
                      /\ \A j \in 1..(k - 1) : terms[j] # terms[k]
        firsts     == SelectSeq([k \in 1..Len(terms) |-> k], IsFirst)
    IN  [i \in 1..Len(c) |->
            [c[i] EXCEPT !.count = @ + Occurrences(terms, c[i].term)]]
        \o [i \in 1..Len(firsts) |->
            [term |-> terms[firsts[i]], count |-> Occurrences(terms, terms[firsts[i]])]]

\* the largest count of a Counter, 0 when it is empty
MaxCount(c) ==
    IF c = <<>> THEN 0
    ELSE CHOOSE n \in {c[i].count : i \in 1..Len(c)} :
            \A i \in 1..Len(c) : c[i].count <= n

\* a descending sort that turns the order of equal counts around, as
\* reversing an ascending stable sort would
SortedByCountTiesReversed(c) ==
    LET top == MaxCount(c)
        WithCount(n) == LET Has(e) == e.count = n
                            same == SelectSeq(c, Has)
                        IN  [k \in 1..Len(same) |-> same[Len(same) + 1 - k]]
    IN  Flatten([k \in 1..top |-> WithCount(top + 1 - k)])

\* sorted(counter.items(), key=itemgetter(1), reverse=True).  The sort is
\* stable: the entries of the largest count in the order the Counter holds
\* them, then those of the next count, and so on.
SortedByCount(c) ==
    LET top == MaxCount(c)
        WithCount(n) == LET Has(e) == e.count = n IN SelectSeq(c, Has)
    IN  Flatten([k \in 1..top |-> WithCount(top + 1 - k)])

\* counter.most_common(n), which heapq.nlargest documents as
\* sorted(iterable, key=key, reverse=True)[:n]
most_common(c, n) ==
    LET all == SortedByCount(c)
    IN  IF Len(all) > n THEN SubSeq(all, 1, n) ELSE all

MostCommonLimit == 120

\* items[lo].count + ... + items[hi].count, by halves
RECURSIVE SumCountsRange(_, _, _)
SumCountsRange(items, lo, hi) ==
    IF lo > hi THEN 0
    ELSE IF lo = hi THEN items[lo].count
    ELSE SumCountsRange(items, lo, Mid(lo, hi)) + SumCountsRange(items, Mid(lo, hi) + 1, hi)

\* sum(item["count"] for item in items)
SumCounts(items) == SumCountsRange(items, 1, Len(items))

\* the list collect_frequencies returns for its final counter and scanned_files
ResultItems(c, files, m) ==
    LET common == most_common(c, MostCommonLimit)
    IN  [k \in 1..Len(common) |->
            [term |-> common[k].term, count |-> common[k].count,
             mode |-> m, files |-> files]]

\* build_response with a total over the whole Counter instead of the items
build_response_full_corpus(c, files, m) ==
    [mode |-> m, items |-> ResultItems(c, files, m), total_terms |-> SumCounts(c)]

\* the dict build_response returns when collect_frequencies ended with
\* Counter c and scanned_files files
build_response(c, files, m) ==
    LET items == ResultItems(c, files, m)
    IN  [mode |-> m, items |-> items, total_terms |-> SumCounts(items)]

(***************************************************************************)
(* One iteration of collect_frequencies' loop                              *)
(***************************************************************************)

\* the terms the file adds to the counter
FileTerms(t, m) == IF m = "symbols" THEN symbol_tokens(t) ELSE tokenize(t, m)

\* the text the loop reads from an entry it did not skip
EntryText(entry) == read_text(entry.readable, entry.bytes)

\* scanned_files += 1 ahead of the test of the text
IsScannedBeforeTextTest(rel, entry, m) ==
    /\ entry.kind # "dir"
    /\ ~should_skip_file(rel, entry, m)

\* whether the iteration for this path reaches scanned_files += 1
IsScanned(rel, entry, m) ==
    /\ entry.kind # "dir"
    /\ ~should_skip_file(rel, entry, m)
    /\ EntryText(entry) # <<>>

\* the locals [counter, scanned_files] after the iteration for one path
ScanPath(c, files, rel, entry, m) ==
    IF IsScanned(rel, entry, m)
    THEN [counter |-> CounterUpdate(c, FileTerms(EntryText(entry), m)),
          scanned_files |-> files + 1]
    ELSE [counter |-> c, scanned_files |-> files]

(***************************************************************************)
(* The file system the scans run over                                      *)
(***************************************************************************)

\* The paths below REPO_ROOT, in the order rglob("*") yields those that
\* exist: the children of the root, then those of each directory.
\*   1 .config   2 assets   3 node_modules   4 src   5 web
\*   6 .config/settings.py   7 node_modules/lib.py   8 src/.hidden.py
\*   9 src/main.py   10 src/util.py   11 web/app.ts
PathList ==
    << << <<46, 99, 111, 110, 102, 105, 103>> >>,
       << <<97, 115, 115, 101, 116, 115>> >>,
       << <<110, 111, 100, 101, 95, 109, 111, 100, 117, 108, 101, 115>> >>,
       << <<115, 114, 99>> >>,
       << <<119, 101, 98>> >>,
       << <<46, 99, 111, 110, 102, 105, 103>>,
          <<115, 101, 116, 116, 105, 110, 103, 115, 46, 112, 121>> >>,
       << <<110, 111, 100, 101, 95, 109, 111, 100, 117, 108, 101, 115>>,
          <<108, 105, 98, 46, 112, 121>> >>,
       << <<115, 114, 99>>, <<46, 104, 105, 100, 100, 101, 110, 46, 112, 121>> >>,
       << <<115, 114, 99>>, <<109, 97, 105, 110, 46, 112, 121>> >>,
       << <<115, 114, 99>>, <<117, 116, 105, 108, 46, 112, 121>> >>,
       << <<119, 101, 98>>, <<97, 112, 112, 46, 116, 115>> >> >>

PathIds == 1..Len(PathList)

\* class Ab: / ab_cd = 1 / ab_cd = 2
TextA ==
    <<99, 108, 97, 115, 115, 32, 65, 98, 58, 10,
      97, 98, 95, 99, 100, 32, 61, 32, 49, 10,
      97, 98, 95, 99, 100, 32, 61, 32, 50, 10>>

\* zz9 = 1 / zz9 = 2 / class Ab / zz9 = 3
TextB ==
    <<122, 122, 57, 32, 61, 32, 49, 10, 122, 122, 57, 32, 61, 32, 50, 10,
      99, 108, 97, 115, 115, 32, 65, 98, 10, 122, 122, 57, 32, 61, 32, 51, 10>>

\* class Ts / function go_ts() / ts_var = 1
TextS ==
    <<99, 108, 97, 115, 115, 32, 84, 115, 10,
      102, 117, 110, 99, 116, 105, 111, 110, 32, 103, 111, 95, 116, 115, 40, 41, 10,
      116, 115, 95, 118, 97, 114, 32, 61, 32, 49, 10>>

\* b"\x00abc"
BinaryBytes == <<0, 97, 98, 99>>

\* one more distinct term than most_common keeps
BigTerms == MostCommonLimit + 1

\* BigTerms lines "kax=", "kbx=", ... : as many distinct three-letter terms,
\* each once, in every mode, and not in alphabetical order
BigText ==
    Flatten([i \in 1..BigTerms |->
                <<107 - ((i - 1) \div 11), 97 + ((i - 1) % 11), 120, 61, 10>>])

Absent      == [kind |-> "absent", readable |-> FALSE, bytes |-> <<>>]
Directory   == [kind |-> "dir", readable |-> FALSE, bytes |-> <<>>]
\* neither a directory nor a regular file: a dangling symlink, a socket
Special     == [kind |-> "other", readable |-> FALSE, bytes |-> <<>>]
\* a regular file whose read_bytes() raises OSError
Unreadable  == [kind |-> "file", readable |-> FALSE, bytes |-> <<>>]
File(bytes) == [kind |-> "file", readable |-> TRUE, bytes |-> bytes]

\* What the file system may hold at each path.  The directories are always
\* there, and so are the entry that is no regular file (2) and the two files
\* no mode may scan (7 and 8).
Candidates(p) ==
    IF p \in {1, 3, 4, 5} THEN {Directory}
    ELSE IF p = 2 THEN {Special}
    ELSE IF p = 9 THEN {Absent, Unreadable, File(TextA), File(BigText), File(BinaryBytes)}
    ELSE IF p = 10 THEN {Absent, Unreadable, File(TextB)}
    ELSE IF p \in {6, 11} THEN {Absent, File(TextS)}
    ELSE {File(TextA)}

\* every file system the model starts from
Trees ==
    {<<Directory, e2, Directory, Directory, Directory, e6, e7, e8, e9, e10, e11>> :
        e2 \in Candidates(2), e6 \in Candidates(6), e7 \in Candidates(7),
        e8 \in Candidates(8), e9 \in Candidates(9), e10 \in Candidates(10),
        e11 \in Candidates(11)}

\* list(REPO_ROOT.rglob("*")): the ids of the paths that exist, from id p on
RECURSIVE Walk(_, _)
Walk(t, p) ==
    IF p > Len(PathList) THEN <<>>
    ELSE IF t[p].kind = "absent" THEN Walk(t, p + 1)
    ELSE <<p>> \o Walk(t, p + 1)

Modes == {"words", "code", "symbols"}

NoResponse == [mode |-> "none", items |-> <<>>, total_terms |-> 0]

MaxEdits == 1

MaxServed == 1

(***************************************************************************)
(* The request handler: do_GET -> build_response -> collect_frequencies    *)
(***************************************************************************)

\* the Counter() and the 0 that collect_frequencies binds its locals to
NewLocals == [counter |-> <<>>, scanned_files |-> 0]

\* a scan that goes on counting where the scan before it ended, as with a
\* Counter kept at module level
ScanStartKeepsLocals(m) ==
    /\ pc = "idle"
    /\ pc' = "scan"
    /\ mode' = m
    /\ pending' = Walk(tree, 1)
    /\ response' = NoResponse
    /\ UNCHANGED <<tree, counter, scanned_files, edits, served>>

\* a request for mode m arrives: build_response(m) enters
\* collect_frequencies, which binds its locals and starts the walk
ScanStart(m) ==
    /\ pc = "idle"
    /\ pc' = "scan"
    /\ mode' = m
    /\ counter' = NewLocals.counter
    /\ scanned_files' = NewLocals.scanned_files
    /\ pending' = Walk(tree, 1)
    /\ response' = NoResponse
    /\ UNCHANGED <<tree, edits, served>>

\* one iteration of the loop over rglob
ScanNext ==
    /\ pc = "scan"
    /\ pending # <<>>
    /\ LET p     == Head(pending)
           after == ScanPath(counter, scanned_files, PathList[p], tree[p], mode)
       IN  /\ counter' = after.counter
           /\ scanned_files' = after.scanned_files
    /\ pending' = Tail(pending)
    /\ UNCHANGED <<tree, pc, mode, response, edits, served>>

\* the loop is over: collect_frequencies returns its items and
\* build_response its payload
Finish ==
    /\ pc = "scan"
    /\ pending = <<>>
    /\ response' = build_response(counter, scanned_files, mode)
    /\ pc' = "done"
    /\ UNCHANGED <<tree, mode, pending, counter, scanned_files, edits, served>>

\* do_GET writes the payload; the server is ready for the next request
Send ==
    /\ pc = "done"
    /\ pc' = "idle"
    /\ served' = IF served < MaxServed THEN served + 1 ELSE served
    /\ UNCHANGED <<tree, mode, pending, counter, scanned_files, response, edits>>

\* between two requests somebody creates, removes, replaces or locks a file
EditTree(p, entry) ==
    /\ pc = "idle"
    /\ edits < MaxEdits
    /\ entry # tree[p]
    /\ tree' = [tree EXCEPT ![p] = entry]
    /\ edits' = edits + 1
    /\ UNCHANGED <<pc, mode, pending, counter, scanned_files, response, served>>

ScanInit ==
    /\ tree \in Trees
    /\ pc = "idle"
    /\ mode = "none"
    /\ pending = <<>>
    /\ counter = <<>>
    /\ scanned_files = 0
    /\ response = NoResponse
    /\ edits = 0
    /\ served = 0

TokIdle  == text = <<>> /\ op = "none" /\ tokens = <<>>
LoadIdle == raw = <<>> /\ loaded = <<>>

Init == ScanInit /\ TokIdle /\ LoadIdle

Next ==
    \/ \E m \in Modes : ScanStart(m) /\ UNCHANGED <<tokVars, loadVars>>
    \/ ScanNext /\ UNCHANGED <<tokVars, loadVars>>
    \/ Finish /\ UNCHANGED <<tokVars, loadVars>>
    \/ Send /\ UNCHANGED <<tokVars, loadVars>>
    \/ \E p \in PathIds : \E entry \in Candidates(p) :
           EditTree(p, entry) /\ UNCHANGED <<tokVars, loadVars>>

Spec == Init /\ [][Next]_vars

(***************************************************************************)
(* What a scan of a tree is, said without the handler's state              *)
(***************************************************************************)

\* the terms the files of tree t yield in mode m, in the order of the walk
TermStream(t, m) ==
    LET walk == Walk(t, 1)
    IN  Flatten([k \in 1..Len(walk) |->
                    IF IsScanned(PathList[walk[k]], t[walk[k]], m)
                    THEN FileTerms(EntryText(t[walk[k]]), m)
                    ELSE <<>>])

\* the locals of collect_frequencies after the paths walk[1..k], started
\* from an empty Counter and 0
RECURSIVE FreshLocals(_, _, _, _)
FreshLocals(t, m, walk, k) ==
    IF k = 0 THEN NewLocals
    ELSE LET before == FreshLocals(t, m, walk, k - 1)
         IN  ScanPath(before.counter, before.scanned_files,
                      PathList[walk[k]], t[walk[k]], m)

\* the payload of a scan of tree t in mode m that starts from nothing
FreshScan(t, m) ==
    LET walk == Walk(t, 1)
        end  == FreshLocals(t, m, walk, Len(walk))
    IN  build_response(end.counter, end.scanned_files, m)

\* tree t with the files that satisfy Gone(p, entry) removed
Without(t, Gone(_, _)) ==
    [p \in PathIds |-> IF t[p].kind = "file" /\ Gone(p, t[p]) THEN Absent ELSE t[p]]

\* the terms of the items of a payload
ItemTerms(payload) == {payload.items[k].term : k \in 1..Len(payload.items)}

(***************************************************************************)
(* The claims about the scans                                              *)
(***************************************************************************)

\* how often term occurs in stream
TimesIn(stream, term) == Cardinality({k \in 1..Len(stream) : stream[k] = term})

\* where term occurs first in stream
FirstIn(stream, term) ==
    LET at == {k \in 1..Len(stream) : stream[k] = term}
    IN  CHOOSE k \in at : \A j \in at : k <= j

\* C1: the items are the first min(120, number of distinct terms) terms of
\* the scan when these are ordered by count, descending, terms of equal
\* count in the order in which the scan met them first; so there are at
\* most 120 items and their counts never increase.
C1_ItemsAreTopTermsFirstSeenOrder ==
    pc = "done" =>
        LET stream   == TermStream(tree, mode)
            distinct == {stream[k] : k \in 1..Len(stream)}
            times    == [t \in distinct |-> TimesIn(stream, t)]
            first    == [t \in distinct |-> FirstIn(stream, t)]
            items    == response.items
            n        == Len(items)
            Ahead(a, b) == \/ times[a] > times[b]
                           \/ times[a] = times[b] /\ first[a] < first[b]
        IN  /\ n = (IF Cardinality(distinct) < 120 THEN Cardinality(distinct) ELSE 120)
            /\ \A k \in 1..n : /\ items[k].term \in distinct
                               /\ items[k].count = times[items[k].term]
            /\ \A k \in 1..(n - 1) : Ahead(items[k].term, items[k + 1].term)
            /\ \A t \in distinct \ ItemTerms(response) : Ahead(items[n].term, t)
            /\ n <= 120
            /\ \A k \in 1..(n - 1) : items[k].count >= items[k + 1].count

\* a scan met more than 120 distinct terms, some of equal count, and a term
\* met late (in src/util.py) stands ahead of terms met before it
C1_Witness ==
    /\ pc = "done"
    /\ tree[9] = File(BigText)
    /\ tree[10] = File(TextB)
    /\ Len(counter) > 120
    /\ Len(response.items) = 120
    /\ response.items[1].count > response.items[2].count
    /\ response.items[119].count = response.items[120].count

\* C2: total_terms is the sum of the counts of the returned items, that is
\* the number of occurrences in the scan of the returned terms only; with
\* more than 120 distinct terms it is below the number of all occurrences.
C2_TotalOverReturnedItemsOnly ==
    pc = "done" =>
        LET stream   == TermStream(tree, mode)
            returned == ItemTerms(response)
            distinct == {stream[k] : k \in 1..Len(stream)}
        IN  /\ response.total_terms
                 = Cardinality({k \in 1..Len(stream) : stream[k] \in returned})
            /\ Cardinality(distinct) > 120 => response.total_terms < Len(stream)

\* a scan of more than 120 distinct terms whose total leaves occurrences out
C2_Witness ==
    /\ pc = "done"
    /\ Len(counter) > 120
    /\ Len(response.items) = 120
    /\ response.total_terms < Len(TermStream(tree, mode))

IsUnreadable(p, entry) == ~entry.readable

\* C3: a file whose read raises an I/O error does not stop the scan, adds no
\* term and is not counted in files: the payload is the payload of the same
\* tree without that file.
C3_UnreadableFileAsIfAbsent ==
    pc = "done" => response = FreshScan(Without(tree, IsUnreadable), mode)

\* a scan went past the unreadable src/main.py and counted src/util.py alone
C3_Witness ==
    /\ pc = "done"
    /\ tree[9] = Unreadable
    /\ tree[10] = File(TextB)
    /\ tree[6] = Absent
    /\ tree[11] = Absent
    /\ response.items # <<>>
    /\ response.items[1].files = 1

\* a path below REPO_ROOT with a segment of one of the five excluded names
HasExcludedSegment(p) ==
    \E k \in 1..Len(PathList[p]) : PathList[p][k] \in DEFAULT_EXCLUDES

\* a path whose extension is one of .js .jsx .ts .tsx .mjs .cjs
HasJsExtension(p) == Suffix(PathList[p]) \in JS_EXTENSIONS

\* C4: in every mode a file below a directory of an excluded name adds no
\* term and is not counted, and in Symbols mode neither is a file with one
\* of the six extensions: the payload is the payload of the tree without them.
C4_IneligibleFilesNeverContribute ==
    pc = "done" =>
        LET Ineligible(p, entry) ==
                HasExcludedSegment(p) \/ (mode = "symbols" /\ HasJsExtension(p))
        IN  response = FreshScan(Without(tree, Ineligible), mode)

\* a Symbols scan of a tree that holds node_modules/lib.py and web/app.ts,
\* both with lines that match the symbol patterns, and that returned items
C4_Witness ==
    /\ pc = "done"
    /\ mode = "symbols"
    /\ tree[7] = File(TextA)
    /\ tree[11] = File(TextS)
    /\ tree[6] = Absent
    /\ response.items # <<>>
    /\ ItemTerms(response) \cap {symbol_tokens(TextS)[k] : k \in 1..3} = {}

IsHiddenName(seg) == StartsWith(seg, <<46>>)

\* C5 as stated: a file that is hidden itself or lies below a hidden
\* directory adds no term and is not counted.
C5_HiddenDirectoriesExcluded ==
    pc = "done" =>
        LET Hidden(p, entry) ==
                \E k \in 1..Len(PathList[p]) : IsHiddenName(PathList[p][k])
        IN  response = FreshScan(Without(tree, Hidden), mode)

\* C5 amended: a file whose own base name starts with "." adds no term and
\* is not counted; a file with another name below a hidden directory that
\* is not one of the excluded names is scanned like any other file, and its
\* terms are among the items.
C5_HiddenFileNamesExcluded ==
    pc = "done" =>
        LET HiddenFile(p, entry) == IsHiddenName(Name(PathList[p]))
            below == FileTerms(TextS, mode)
        IN  /\ response = FreshScan(Without(tree, HiddenFile), mode)
            /\ tree[6] = File(TextS) =>
                  {below[k] : k \in 1..Len(below)} \subseteq ItemTerms(response)

\* a scan of a tree with the hidden src/.hidden.py and with
\* .config/settings.py, whose terms it returned
C5_Witness ==
    /\ pc = "done"
    /\ mode = "symbols"
    /\ tree[8] = File(TextA)
    /\ tree[6] = File(TextS)
    /\ tree[11] = Absent
    /\ ItemTerms(response) \cap {symbol_tokens(TextS)[k] : k \in 1..3} # {}

\* C7: whatever scans went before, the payload of a scan is the payload of
\* a scan of the present tree in the present mode that starts from an empty
\* Counter and from 0 scanned files, and so does every scan.
C7_ScansAreStateless ==
    /\ pc = "done" => response = FreshScan(tree, mode)
    /\ (pc = "scan" /\ pending = Walk(tree, 1)) => (counter = <<>> /\ scanned_files = 0)

\* a scan that returned items after an earlier scan was answered and the
\* tree was changed
C7_Witness ==
    /\ pc = "done"
    /\ served >= 1
    /\ edits >= 1
    /\ response.items # <<>>

(***************************************************************************)
(* The tokenizers and the loader applied to texts and bytes of their own   *)
(***************************************************************************)

MaxLines == 2

MaxLen == 4

MaxBytes == 5

\* lines a scanned file may hold
\*    1  class Widget:
\*    2  def build_widget():
\*    3  CONST_VALUE = 1
\*    4    nested_var = 2
\*    5  # note = 1
\*    6  (empty)
\*    7    class Inner
\*    8  class Ab = 1
\*    9  x = 1
\*   10  export async function go()
\*   11  <tab>def run
\*   12  -- v = 1
\*   13  class A<201>b
\*   14  value == 2
\*   15  classy = 3
\*   16  def f2 = 1
PoolLines ==
   <<
      <<99, 108, 97, 115, 115, 32, 87, 105, 100, 103, 101, 116, 58>>,
      <<100, 101, 102, 32, 98, 117, 105, 108, 100, 95, 119, 105, 100, 103, 101, 116, 40, 41, 58>>,
      <<67, 79, 78, 83, 84, 95, 86, 65, 76, 85, 69, 32, 61, 32, 49>>,
      <<32, 32, 110, 101, 115, 116, 101, 100, 95, 118, 97, 114, 32, 61, 32, 50>>,
      <<35, 32, 110, 111, 116, 101, 32, 61, 32, 49>>,
      <<>>,
      <<32, 32, 99, 108, 97, 115, 115, 32, 73, 110, 110, 101, 114>>,
      <<99, 108, 97, 115, 115, 32, 65, 98, 32, 61, 32, 49>>,
      <<120, 32, 61, 32, 49>>,
      <<101, 120, 112, 111, 114, 116, 32, 97, 115, 121, 110, 99, 32, 102, 117, 110, 99, 116, 105, 111, 110, 32, 103, 111, 40, 41>>,
      <<9, 100, 101, 102, 32, 114, 117, 110>>,
      <<45, 45, 32, 118, 32, 61, 32, 49>>,
      <<99, 108, 97, 115, 115, 32, 65, 201, 98>>,
      <<118, 97, 108, 117, 101, 32, 61, 61, 32, 50>>,
      <<99, 108, 97, 115, 115, 121, 32, 61, 32, 51>>,
      <<100, 101, 102, 32, 102, 50, 32, 61, 32, 49>>
   >>

RECURSIVE JoinLines(_)
JoinLines(ls) ==
    IF ls = <<>> THEN <<>>
    ELSE IF Len(ls) = 1 THEN ls[1]
    ELSE ls[1] \o <<10>> \o JoinLines(Tail(ls))

\* the texts of up to MaxLines lines of the pool
PoolTexts ==
    UNION { { JoinLines([k \in 1..n |-> PoolLines[pick[k]]]) :
                pick \in [1..n -> 1..Len(PoolLines)] } : n \in 0..MaxLines }

\* a  B  1  _  -  space
Alphabet == {97, 66, 49, 95, 45, 32}

AlphabetTexts == UNION { [1..n -> Alphabet] : n \in 0..MaxLen }

\* codeCloud
CodeCloudCamel == <<99, 111, 100, 101, 67, 108, 111, 117, 100>>

\* code_cloud
CodeCloudSnake == <<99, 111, 100, 101, 95, 99, 108, 111, 117, 100>>

\* HTTPServer
HttpServer == <<72, 84, 84, 80, 83, 101, 114, 118, 101, 114>>

\* codeCloud HTTPServer code_cloud
Sentence == CodeCloudCamel \o <<32>> \o HttpServer \o <<32>> \o CodeCloudSnake

\* class Widget: / def build_widget(): / CONST_VALUE = 1 /   nested_var = 2
FourLines ==
    JoinLines(<<PoolLines[1], PoolLines[2], PoolLines[3], PoolLines[4]>>) \o <<10>>

ExampleTexts == {CodeCloudCamel, CodeCloudSnake, HttpServer, Sentence, FourLines}

TokTexts == PoolTexts \cup AlphabetTexts \cup ExampleTexts

\* the loop of collect_frequencies calls tokenize(text, mode) in Words and
\* in Code mode
ApplyTokenize(m) ==
    /\ op = "none"
    /\ op' = m
    /\ tokens' = tokenize(text, m)
    /\ UNCHANGED <<text, scanVars, loadVars>>

\* and symbol_tokens(text) in Symbols mode
ApplySymbolTokens ==
    /\ op = "none"
    /\ op' = "symbols"
    /\ tokens' = symbol_tokens(text)
    /\ UNCHANGED <<text, scanVars, loadVars>>

\* tokenize hands each of its base tokens to split_identifier
ApplySplitIdentifier ==
    /\ op = "none"
    /\ BaseTokens(text) = <<text>>
    /\ op' = "split"
    /\ tokens' = split_identifier(text)
    /\ UNCHANGED <<text, scanVars, loadVars>>

\* no request is being handled
ScanIdle == ScanInit /\ tree = CHOOSE t \in Trees : TRUE

InitTok ==
    /\ ScanIdle
    /\ LoadIdle
    /\ text \in TokTexts
    /\ op = "none"
    /\ tokens = <<>>

NextTok ==
    \/ \E m \in {"words", "code"} : ApplyTokenize(m)
    \/ ApplySymbolTokens
    \/ ApplySplitIdentifier

SpecTok == InitTok /\ [][NextTok]_vars

\* NUL  newline  a  DEL  and the two bytes of U+00E9
ByteAlphabet == {0, 10, 97, 127, 195, 169}

ByteSeqs == UNION { [1..n -> ByteAlphabet] : n \in 0..MaxBytes }

\* read_text(path) of a file that holds the bytes raw
Load ==
    /\ op = "none"
    /\ op' = "read_text"
    /\ loaded' = read_text(TRUE, raw)
    /\ UNCHANGED <<raw, text, tokens, scanVars>>

\* read_text(path) of a file whose read_bytes() raises OSError
LoadRaises ==
    /\ op = "none"
    /\ op' = "oserror"
    /\ loaded' = read_text(FALSE, raw)
    /\ UNCHANGED <<raw, text, tokens, scanVars>>

InitLoad ==
    /\ ScanIdle
    /\ TokIdle
    /\ raw \in ByteSeqs
    /\ loaded = <<>>

NextLoad == Load \/ LoadRaises

SpecLoad == InitLoad /\ [][NextLoad]_vars

(***************************************************************************)
(* The claims about the tokenizers and the loader                          *)
(***************************************************************************)

\* the characters of 0..255 for which str.isspace() holds
Whitespace == {9, 10, 11, 12, 13, 28, 29, 30, 31, 32, 133, 160}

\* the characters of 0..255 that str.lower() changes
Capitals == (65..90) \cup (192..214) \cup (216..222)

\* C6: every term the tokenizers produce, in every mode, is not empty, holds
\* no whitespace, is longer than one character and holds no character that
\* lowercasing would change.
C6_TermsAreNormalised ==
    op \in {"words", "code", "symbols", "split"} =>
        \A k \in 1..Len(tokens) :
            /\ tokens[k] # <<>>
            /\ Len(tokens[k]) > 1
            /\ \A j \in 1..Len(tokens[k]) :
                   tokens[k][j] \notin Whitespace /\ tokens[k][j] \notin Capitals

\* Code mode on a_BB: the piece a is dropped, the piece BB is lowercased
C6_Witness ==
    /\ op = "code"
    /\ text = <<97, 95, 66, 66>>
    /\ tokens = << <<98, 98>> >>

\* the names the rules of symbol_tokens record for the lines of the pool,
\* lowercased, a name of one character dropped
\*    1  widget
\*    2  build_widget
\*    3  const_value
\*    4  -
\*    5  -
\*    6  -
\*    7  inner
\*    8  ab
\*    9  -
\*   10  go
\*   11  run
\*   12  -
\*   13  a<233>b
\*   14  value
\*   15  classy
\*   16  f2
PoolNames ==
   <<
      <<<<119, 105, 100, 103, 101, 116>>>>,
      <<<<98, 117, 105, 108, 100, 95, 119, 105, 100, 103, 101, 116>>>>,
      <<<<99, 111, 110, 115, 116, 95, 118, 97, 108, 117, 101>>>>,
      <<>>,
      <<>>,
      <<>>,
      <<<<105, 110, 110, 101, 114>>>>,
      <<<<97, 98>>>>,
      <<>>,
      <<<<103, 111>>>>,
      <<<<114, 117, 110>>>>,
      <<>>,
      <<<<97, 233, 98>>>>,
      <<<<118, 97, 108, 117, 101>>>>,
      <<<<99, 108, 97, 115, 115, 121>>>>,
      <<<<102, 50>>>>
   >>

\* the lines of a text whose only line break is the newline
RECURSIVE RawLines(_, _)
RawLines(t, from) ==
    IF \E k \in from..Len(t) : t[k] = 10
    THEN LET nl == CHOOSE k \in from..Len(t) :
                       t[k] = 10 /\ \A j \in from..(k - 1) : t[j] # 10
         IN  <<SubSeq(t, from, nl - 1)>> \o RawLines(t, nl + 1)
    ELSE <<SubSeq(t, from, Len(t))>>

InPool(line) == \E i \in 1..Len(PoolLines) : PoolLines[i] = line

NamesOf(line) == PoolNames[CHOOSE i \in 1..Len(PoolLines) : PoolLines[i] = line]

\* C8: symbol_tokens yields at most one name per line, in the order of the
\* lines; for a line of the pool it is the name that the rules give in
\* their order - none for a blank line or a comment, the type name, else
\* the function name, else the variable name of a line that is not
\* indented; the four-line example yields widget, build_widget,
\* const_value, and a type line that goes on with = yields its type name
\* once.
C8_OneNamePerLineByRuleOrder ==
    op = "symbols" =>
        LET lines == RawLines(text, 1)
        IN  /\ Len(tokens) <= Len(lines)
            /\ (\A k \in 1..Len(lines) : InPool(lines[k])) =>
                   tokens = Flatten([k \in 1..Len(lines) |-> NamesOf(lines[k])])
            /\ text = FourLines =>
                   tokens = <<PoolNames[1][1], PoolNames[2][1], PoolNames[3][1]>>
            /\ text = PoolLines[8] => tokens = PoolNames[8]

\* symbol_tokens ran on the four-line example
C8_Witness ==
    /\ op = "symbols"
    /\ text = FourLines
    /\ Len(tokens) = 3
    /\ tokens[3] = PoolNames[3][1]

Letters == (65..90) \cup (97..122)

Digits == 48..57

\* no piece ends between the characters i and i + 1 of s
Joined(s, i) ==
    \/ s[i] \in 97..122 /\ s[i + 1] \in 97..122
    \/ s[i] \in Digits /\ s[i + 1] \in Digits
    \/ s[i] \in 65..90 /\ s[i + 1] \in 97..122
    \/ /\ s[i] \in 65..90 /\ s[i + 1] \in 65..90
       /\ ~(i + 2 <= Len(s) /\ s[i + 2] \in 97..122)

\* the piece of s that starts at i, if one starts there: a lowercase run
\* with an optional leading capital, an uppercase run not followed by a
\* lowercase letter, or a digit run
PieceFrom(s, i) ==
    IF s[i] \in Letters \cup Digits /\ (i = 1 \/ ~Joined(s, i - 1))
    THEN LET end == CHOOSE j \in i..Len(s) :
                        /\ j = Len(s) \/ ~Joined(s, j)
                        /\ \A k \in i..(j - 1) : Joined(s, k)
         IN  [k \in 1..(end - i + 1) |->
                 IF s[i + k - 1] \in 65..90 THEN s[i + k - 1] + 32 ELSE s[i + k - 1]]
    ELSE <<>>

MoreThanOneCharacter(piece) == Len(piece) > 1

\* the pieces of s in their order, lowercased, those of one character left out
PiecesOf(s) == SelectSeq([i \in 1..Len(s) |-> PieceFrom(s, i)], MoreThanOneCharacter)

\* C9: Code mode and split_identifier cut a text at every character other
\* than a letter or digit and, inside each chunk, at the case and digit
\* boundaries, lowercase the pieces and drop those of one character;
\* codeCloud and code_cloud give code, cloud; HTTPServer gives http, server;
\* the sentence of the three gives code twice, cloud twice, http and server
\* once.
C9_IdentifiersSplitAtCaseAndDigitBoundaries ==
    LET code   == PieceFrom(CodeCloudSnake, 1)
        cloud  == PieceFrom(CodeCloudSnake, 6)
        http   == <<104, 116, 116, 112>>
        server == <<115, 101, 114, 118, 101, 114>>
        Times(term) == Cardinality({k \in 1..Len(tokens) : tokens[k] = term})
    IN  /\ op \in {"code", "split"} => tokens = PiecesOf(text)
        /\ (op = "split" /\ text \in {CodeCloudCamel, CodeCloudSnake}) =>
               tokens = <<code, cloud>>
        /\ (op = "split" /\ text = HttpServer) => tokens = <<http, server>>
        /\ (op = "code" /\ text = Sentence) =>
               /\ Times(code) = 2 /\ Times(cloud) = 2
               /\ Times(http) = 1 /\ Times(server) = 1
               /\ Len(tokens) = 6

\* Code mode ran on the sentence of the three identifiers
C9_Witness ==
    /\ op = "code"
    /\ text = Sentence
    /\ Len(tokens) = 6
    /\ tokens[3] = <<104, 116, 116, 112>>

\* the number of bytes of data that are printable ASCII or tab, newline,
\* carriage return
PrintableBytes(data) ==
    Cardinality({k \in 1..Len(data) : data[k] \in (32..126) \cup {9, 10, 13}})

\* C10: read_text returns the empty text for no bytes, for bytes with a
\* null byte among them and for bytes of which not strictly more than 0.8
\* are printable - exactly 0.8 included; for all other bytes it returns a
\* text that is not empty.
C10_TextOnlyAboveFourFifthsPrintable ==
    op = "read_text" =>
        IF \/ raw = <<>>
           \/ \E k \in 1..Len(raw) : raw[k] = 0
           \/ 10 * PrintableBytes(raw) <= 8 * Len(raw)
        THEN loaded = <<>>
        ELSE loaded # <<>>

\* read_text on five bytes without a null byte, four of them printable
C10_Witness ==
    /\ op = "read_text"
    /\ Len(raw) = 5
    /\ PrintableBytes(raw) = 4
    /\ \A k \in 1..Len(raw) : raw[k] # 0
    /\ loaded = <<>>

====
